---- MODULE Spec2Model ----
(***************************************************************************)
(* Model of the azure-monitor-app monitoring engine:                        *)
(*   server.js           runMonitoring, the published monitoringResults,    *)
(*                       the read endpoints and the /config handlers        *)
(*   websiteMonitor.js   WebsiteMonitor.checkWebsite / checkAll             *)
(*   azureFileMonitor.js AzureFileMonitor.checkFileStorage /                *)
(*                       countFilesRecursively / checkAll                   *)
(*                                                                          *)
(* Node runs one macrotask at a time: an action of this model is one        *)
(* macrotask (a timer tick, an HTTP request, the completion of a network    *)
(* call) together with every promise continuation it makes runnable.        *)
(* JavaScript undefined/null/"" of a string field is the empty string "",   *)
(* a missing Date is NoDate.                                                *)
(***************************************************************************)
EXTENDS Integers, Sequences, FiniteSets, TLC

\* ---------------------------------------------------------------- bounds
MaxTargets == 2     \* longest configured list (websites, azureFileStorages)
MaxCycles == 2      \* runMonitoring invocations
MaxChanges == 1     \* /config requests that restart monitoring
MaxDirs == 2        \* longest storage.directories list
MaxItems == 3       \* entries the listings of one probe yield
MaxDepth == 2       \* nesting of countFilesRecursively calls
MaxTime == 2        \* distinct lastModified instants

\* ---------------------------------------------------------- JS helpers
NoDate == 0
Dates == 1..MaxTime

Truthy(s) == s # ""
\* `${x}` of a string that may be undefined
Str(s) == IF s = "" THEN "undefined" ELSE s
\* a || b on strings
OrElse(a, b) == IF Truthy(a) THEN a ELSE b

EmptyMap == <<>>
\* obj[k] = v
Put(m, k, v) == (k :> v) @@ m

\* Date.prototype.toISOString of a possibly missing date, `?.toISOString() || null`
toISOStringOrNull(d) == IF d = NoDate THEN "null" ELSE "T" \o ToString(d)

Return(v) == [threw |-> FALSE, value |-> v]
Throw(msg) == [threw |-> TRUE, message |-> msg]

\* ------------------------------------------------------- websiteMonitor.js
timeout == 10000

StatusCodes == {200, 404, 499, 500, 503}
ErrorCodes == {"ECONNABORTED", "ENOTFOUND", "ECONNREFUSED", "ERR_OTHER"}
\* what the network does with one GET: a response, or no response at all
AxiosOutcomes ==
  [kind : {"response"}, status : StatusCodes, code : {""}]
    \cup [kind : {"error"}, status : {0}, code : ErrorCodes]

\* A mutant of validateStatus: only a status below 400 is accepted.
validateStatusBelow400(status) == status < 400

validateStatus(status) == status < 500

\* axios.get(url, {timeout, validateStatus}): resolves with the response when
\* validateStatus accepts it, else rejects with an error carrying the response;
\* without a response it rejects with an error carrying a code.
axiosGet(net) ==
  IF net.kind = "response" /\ validateStatus(net.status)
  THEN [threw |-> FALSE, response |-> [status |-> net.status]]
  ELSE [threw |-> TRUE,
        error |-> [hasResponse |-> net.kind = "response",
                   response |-> [status |-> net.status],
                   code |-> net.code]]

errorMessage(error) ==
  IF error.hasResponse THEN "HTTP " \o ToString(error.response.status)
  ELSE IF error.code = "ECONNABORTED" THEN "Request timeout"
  ELSE IF error.code = "ENOTFOUND" THEN "DNS resolution failed"
  ELSE IF error.code = "ECONNREFUSED" THEN "Connection refused"
  ELSE "error: " \o error.code

\* A mutant of checkWebsite: the catch block is missing, a rejected request
\* escapes the probe.
checkWebsiteNoCatch(website, net) ==
  LET r == axiosGet(net) IN
  IF ~r.threw
  THEN Return([url |-> website.url,
               name |-> OrElse(website.name, website.url),
               status |-> "up",
               statusCode |-> r.response.status,
               message |-> "OK - " \o ToString(r.response.status)])
  ELSE Throw(errorMessage(r.error))

checkWebsite(website, net) ==
  LET r == axiosGet(net) IN
  IF ~r.threw
  THEN Return([url |-> website.url,
               name |-> OrElse(website.name, website.url),
               status |-> "up",
               statusCode |-> r.response.status,
               message |-> "OK - " \o ToString(r.response.status)])
  ELSE Return([url |-> website.url,
               name |-> OrElse(website.name, website.url),
               status |-> "down",
               statusCode |-> IF r.error.hasResponse
                              THEN r.error.response.status ELSE 0,
               message |-> errorMessage(r.error)])

\* ----------------------------------------------------- azureFileMonitor.js
\* A storage target: accountName, shareName, name, sasUrl, credential are
\* strings ("" when absent), directories a sequence of paths.
Storage(accountName, shareName, name, sasUrl, credential, directories) ==
  [accountName |-> accountName, shareName |-> shareName, name |-> name,
   sasUrl |-> sasUrl, credential |-> credential, directories |-> directories]

\* storage.directories && storage.directories.length > 0
hasDirectories(storage) == Len(storage.directories) > 0

\* the key checkAll stores a result under
storageKey(storage) ==
  IF Truthy(storage.accountName)
  THEN Str(storage.accountName) \o "/" \o Str(storage.shareName)
  ELSE Str(OrElse(storage.name, storage.sasUrl))

displayName(storage) ==
  OrElse(storage.name, Str(storage.accountName) \o "/" \o Str(storage.shareName))

\* The error result: the same object literal is built for an absent share
\* (message 'Share does not exist'), in the inner catch and in the outer catch.
errorResponse(storage, message) ==
  [accountName |-> storage.accountName,
   shareName |-> storage.shareName,
   name |-> displayName(storage),
   status |-> "error",
   fileCount |-> 0,
   message |-> message]

\* A mutant of okResponse: the breakdown is attached to every response.
okResponseAlwaysBreakdown(storage, fileCount, results) ==
  [accountName |-> storage.accountName,
   shareName |-> storage.shareName,
   name |-> displayName(storage),
   status |-> "ok",
   fileCount |-> fileCount,
   message |-> ToString(fileCount) \o " files found",
   directoryBreakdown |-> results]

\* the response of a completed count, with the breakdown when directories
\* were monitored
okResponse(storage, fileCount, results) ==
  LET response == [accountName |-> storage.accountName,
                   shareName |-> storage.shareName,
                   name |-> displayName(storage),
                   status |-> "ok",
                   fileCount |-> fileCount,
                   message |-> ToString(fileCount) \o " files found"]
  IN IF hasDirectories(storage)
     THEN [accountName |-> response.accountName,
           shareName |-> response.shareName,
           name |-> response.name,
           status |-> response.status,
           fileCount |-> response.fileCount,
           message |-> ToString(fileCount) \o " files found across "
                         \o ToString(Len(storage.directories)) \o " directories",
           directoryBreakdown |-> results]
     ELSE response

\* One frame of countFilesRecursively: its three locals.
newFrame == [fileCount |-> 0, oldestFile |-> NoDate, newestFile |-> NoDate]

\* what getProperties does for one file: fails, or gives lastModified
FileProps == {[ok |-> FALSE, lastModified |-> NoDate]}
               \cup [ok : {TRUE}, lastModified : Dates]

\* A mutant of fileItem: a file is counted only once its getProperties call
\* has succeeded.
fileItemCountsStamped(frame, props) ==
  IF ~props.ok THEN frame
  ELSE [frame EXCEPT
          !.fileCount = @ + 1,
          !.oldestFile = IF frame.oldestFile = NoDate
                            \/ props.lastModified < frame.oldestFile
                         THEN props.lastModified ELSE @,
          !.newestFile = IF frame.newestFile = NoDate
                            \/ props.lastModified > frame.newestFile
                         THEN props.lastModified ELSE @]

\* an item of kind 'file': counted, then its lastModified, when getProperties
\* succeeds, widens [oldestFile, newestFile]
fileItem(frame, props) ==
  LET counted == [frame EXCEPT !.fileCount = @ + 1] IN
  IF ~props.ok THEN counted
  ELSE [counted EXCEPT
          !.oldestFile = IF frame.oldestFile = NoDate
                            \/ props.lastModified < frame.oldestFile
                         THEN props.lastModified ELSE @,
          !.newestFile = IF frame.newestFile = NoDate
                            \/ props.lastModified > frame.newestFile
                         THEN props.lastModified ELSE @]

\* the value a call returns
aggregate(frame) ==
  [count |-> frame.fileCount, oldestFile |-> frame.oldestFile,
   newestFile |-> frame.newestFile]

\* A mutant of directoryItem: the dates of subResult are taken only while the
\* frame has none.
directoryItemFirstDates(frame, subResult) ==
  [frame EXCEPT
     !.fileCount = @ + subResult.count,
     !.oldestFile = IF frame.oldestFile = NoDate
                    THEN subResult.oldestFile ELSE @,
     !.newestFile = IF frame.newestFile = NoDate
                    THEN subResult.newestFile ELSE @]

\* an item of kind 'directory', once the recursive call has returned subResult
directoryItem(frame, subResult) ==
  [frame EXCEPT
     !.fileCount = @ + subResult.count,
     !.oldestFile = IF subResult.oldestFile # NoDate
                       /\ (frame.oldestFile = NoDate
                           \/ subResult.oldestFile < frame.oldestFile)
                    THEN subResult.oldestFile ELSE @,
     !.newestFile = IF subResult.newestFile # NoDate
                       /\ (frame.newestFile = NoDate
                           \/ subResult.newestFile > frame.newestFile)
                    THEN subResult.newestFile ELSE @]

\* The state of one checkFileStorage call.
\*   pc        "exists": awaiting shareClient.exists(); "list": awaiting the
\*             listing of the directory on top of stack; "hung": a network call
\*             that never returns; "done": returned result
\*   dirIdx    position in storage.directories of the directory being counted,
\*             0 for the share root
\*   stack     the frames of the nested countFilesRecursively calls
\*   calls     the kinds of network calls issued so far
\*   exists    history: what exists() reported, "" before it has
\*   items, seen, log   history: entries yielded to this probe, files yielded
\*             to the current top-level count, and per finished top-level
\*             count whether it failed, how many files it was shown and how
\*             many calls were open when it settled
\*   stamps    history: the lastModified instants fetched in the current
\*             top-level count (kept in log for a requested directory that
\*             was counted)
NoResult == [status |-> "none"]

probeState(pc, calls, result) ==
  [pc |-> pc, dirIdx |-> 0, fileCount |-> 0, results |-> EmptyMap,
   stack |-> <<>>, calls |-> calls, exists |-> "", items |-> 0, seen |-> 0,
   stamps |-> {}, log |-> <<>>, result |-> result]

\* A mutant of beginProbe: the access-mode check is missing and exists() is
\* called for every target.
beginProbeNoAccessCheck(storage) == probeState("exists", {"exists"}, NoResult)

\* checkFileStorage up to its first await: resolve the share client, throw
\* (into the outer catch) when there is no access mode, else call exists()
beginProbe(storage) ==
  IF Truthy(storage.sasUrl) \/ Truthy(storage.credential)
  THEN probeState("exists", {"exists"}, NoResult)
  ELSE probeState("done", {},
         errorResponse(storage, "Either sasUrl or credential must be provided"))

\* begin countFilesRecursively for the directory at idx (0: the root)
beginCount(task, idx) ==
  [task EXCEPT !.pc = "list", !.dirIdx = idx, !.stack = <<newFrame>>,
               !.seen = 0, !.stamps = {},
               !.calls = @ \cup {"listFilesAndDirectories"}]

\* A mutant of existsReturns: what exists() reports is not looked at.
existsReturnsUnchecked(task, storage, e) ==
  IF e = "throws"
  THEN [task EXCEPT !.pc = "done", !.exists = e,
                    !.result = errorResponse(storage, "exists failed")]
  ELSE beginCount([task EXCEPT !.exists = e],
                  IF hasDirectories(storage) THEN 1 ELSE 0)

\* exists() settled: e is "true", "false" or "throws"
existsReturns(task, storage, e) ==
  IF e = "throws"
  THEN [task EXCEPT !.pc = "done", !.exists = e,
                    !.result = errorResponse(storage, "exists failed")]
  ELSE IF e = "false"
  THEN [task EXCEPT !.pc = "done", !.exists = e,
                    !.result = errorResponse(storage, "Share does not exist")]
  ELSE beginCount([task EXCEPT !.exists = e],
                  IF hasDirectories(storage) THEN 1 ELSE 0)

\* A mutant of countReturns: the try/catch around one directory is missing,
\* a directory that fails to list fails the whole probe.
countReturnsNoDirCatch(task, storage, outcome) ==
  LET logged == [task EXCEPT !.stack = <<>>, !.stamps = {},
                   !.log = Append(@, [dirIdx |-> task.dirIdx,
                                      failed |-> outcome.threw,
                                      files |-> task.seen,
                                      depth |-> Len(task.stack),
                                      stamps |->
                                        IF outcome.threw \/ task.dirIdx = 0
                                        THEN {} ELSE task.stamps])]
  IN
  IF outcome.threw
  THEN [logged EXCEPT !.pc = "done",
                      !.result = errorResponse(storage, outcome.message)]
  ELSE IF task.dirIdx = 0
  THEN [logged EXCEPT !.pc = "done", !.fileCount = outcome.value.count,
          !.result = okResponse(storage, outcome.value.count, task.results)]
  ELSE
    LET dir == storage.directories[task.dirIdx]
        results == Put(task.results, dir,
                       [count |-> outcome.value.count,
                        oldestFileDate |-> toISOStringOrNull(outcome.value.oldestFile),
                        newestFileDate |-> toISOStringOrNull(outcome.value.newestFile)])
        fileCount == task.fileCount + outcome.value.count
        counted == [logged EXCEPT !.results = results, !.fileCount = fileCount]
    IN IF task.dirIdx < Len(storage.directories)
       THEN beginCount(counted, task.dirIdx + 1)
       ELSE [counted EXCEPT !.pc = "done",
                            !.result = okResponse(storage, fileCount, results)]

\* The outermost countFilesRecursively call of the probe settled with outcome
\* (Return(aggregate) or Throw(message)): the rest of checkFileStorage's loop
\* over storage.directories, or of the root count, up to the next await.
countReturns(task, storage, outcome) ==
  LET logged == [task EXCEPT !.stack = <<>>, !.stamps = {},
                   !.log = Append(@, [dirIdx |-> task.dirIdx,
                                      failed |-> outcome.threw,
                                      files |-> task.seen,
                                      depth |-> Len(task.stack),
                                      stamps |->
                                        IF outcome.threw \/ task.dirIdx = 0
                                        THEN {} ELSE task.stamps])]
  IN
  IF task.dirIdx = 0
  THEN IF outcome.threw
       THEN [logged EXCEPT !.pc = "done",
                           !.result = errorResponse(storage, outcome.message)]
       ELSE [logged EXCEPT !.pc = "done", !.fileCount = outcome.value.count,
               !.result = okResponse(storage, outcome.value.count, task.results)]
  ELSE
    LET dir == storage.directories[task.dirIdx]
        results == IF outcome.threw
                   THEN Put(task.results, dir, [error |-> outcome.message])
                   ELSE Put(task.results, dir,
                         [count |-> outcome.value.count,
                          oldestFileDate |-> toISOStringOrNull(outcome.value.oldestFile),
                          newestFileDate |-> toISOStringOrNull(outcome.value.newestFile)])
        fileCount == IF outcome.threw THEN task.fileCount
                     ELSE task.fileCount + outcome.value.count
        counted == [logged EXCEPT !.results = results, !.fileCount = fileCount]
    IN IF task.dirIdx < Len(storage.directories)
       THEN beginCount(counted, task.dirIdx + 1)
       ELSE [counted EXCEPT !.pc = "done",
                            !.result = okResponse(storage, fileCount, results)]

\* the listing on top of the stack yields a file
yieldsFile(task, props) ==
  [task EXCEPT !.stack[Len(task.stack)] = fileItem(@, props),
               !.items = @ + 1, !.seen = @ + 1,
               !.stamps = IF props.ok THEN @ \cup {props.lastModified} ELSE @,
               !.calls = @ \cup {"getProperties"}]

\* the listing on top of the stack yields a directory: the recursive call
\* starts listing it
yieldsDirectory(task) ==
  [task EXCEPT !.stack = Append(@, newFrame), !.items = @ + 1]

\* the listing on top of the stack is exhausted: the call returns its aggregate
\* to the frame below, or to checkFileStorage
listingEnds(task, storage) ==
  LET n == Len(task.stack)
      subResult == aggregate(task.stack[n])
  IN IF n > 1
     THEN [task EXCEPT !.stack = [i \in 1..(n - 1) |->
                                    IF i = n - 1
                                    THEN directoryItem(task.stack[i], subResult)
                                    ELSE task.stack[i]]]
     ELSE countReturns(task, storage, Return(subResult))

\* A mutant of listingFails: the failure of a nested call is contained, the
\* call below goes on with its own listing.
listingFailsContained(task, storage) ==
  IF Len(task.stack) > 1
  THEN [task EXCEPT !.stack = SubSeq(@, 1, Len(@) - 1)]
  ELSE countReturns(task, storage, Throw("listing failed"))

\* the listing on top of the stack fails: every enclosing call rethrows
listingFails(task, storage) ==
  countReturns(task, storage, Throw("listing failed"))

\* --------------------------------------------------------------- server.js
VARIABLES
  config,             \* config.websites, config.azureFileStorages
  websiteMonitor,     \* the WebsiteMonitor in use: its websites list
  azureFileMonitor,   \* the AzureFileMonitor in use: its storageAccounts list
  monitoringResults,  \* the published snapshot
  cycle,              \* the runMonitoring invocations, by number
  res,                \* the response of this step, when it is an HTTP request
  generation,         \* history: restartMonitoring calls so far
  publications,       \* history: snapshots published so far
  provenance          \* history: where the published snapshot comes from

vars == <<config, websiteMonitor, azureFileMonitor, monitoringResults, cycle,
          res, generation, publications, provenance>>

Cycles == 1..MaxCycles

Website(name, url) == [name |-> name, url |-> url]

\* ---- the targets and inputs of the orchestration specification
Urls == {"u1", "u2"}
siteA == Website("site", "u1")
credStore == Storage("acct", "share", "", "", "cred", <<>>)
bareStore == Storage("acct", "other", "bare", "", "", <<>>)
\* config.json at start-up: its lists hold no two targets with one key
InitialWebsites == {<<>>, <<siteA>>}
InitialStorages == {<<>>, <<credStore>>, <<bareStore>>}
\* the outcomes of a GET the orchestration specification draws from
CycleOutcomes ==
  {net \in AxiosOutcomes : net.status = 200 \/ net.code = "ECONNABORTED"}
Tokens == {"", "bad", "good"}
NameInputs == {"", "site"}
UrlInputs == {""} \cup Urls
ShareInputs == {"", "share"}
SasInputs == {"", "sas"}
DirectoryInputs == {<<>>, <<"a">>}

NoNet == [kind |-> "none", status |-> 0, code |-> ""]
pendingRequest == [pc |-> "pending", net |-> NoNet, result |-> NoResult]

idleCycle ==
  [pc |-> "idle",
   websites |-> <<>>, webTask |-> <<>>, websiteResults |-> EmptyMap,
   storageAccounts |-> <<>>, storeTask |-> <<>>, azureFileResults |-> EmptyMap,
   startGen |-> 0, webGen |-> 0, storeGen |-> 0,
   startLists |-> [websites |-> <<>>, storageAccounts |-> <<>>]]

NoProvenance ==
  [from |-> [websites |-> 0, azureFiles |-> 0, lastUpdate |-> 0],
   cycle |-> 0, websites |-> <<>>, storageAccounts |-> <<>>,
   startGen |-> 0, webGen |-> 0, storeGen |-> 0, atGen |-> 0,
   startLists |-> [websites |-> <<>>, storageAccounts |-> <<>>],
   inUse |-> [websites |-> <<>>, storageAccounts |-> <<>>]]

NoResponse == [status |-> 0, body |-> "none"]

\* new WebsiteMonitor(websites), new AzureFileMonitor(storageAccounts); gen
\* tells the monitor objects apart
WebsiteMonitor(websites, gen) == [websites |-> websites, gen |-> gen]
AzureFileMonitor(storageAccounts, gen) ==
  [storageAccounts |-> storageAccounts, gen |-> gen]

InitWith(websites, storages) ==
  /\ config = [websites |-> websites, azureFileStorages |-> storages]
  /\ websiteMonitor = WebsiteMonitor(websites, 0)
  /\ azureFileMonitor = AzureFileMonitor(storages, 0)
  /\ monitoringResults =
       [websites |-> EmptyMap, azureFiles |-> EmptyMap, lastUpdate |-> 0]
  /\ cycle = [c \in Cycles |-> idleCycle]
  /\ res = NoResponse
  /\ generation = 0
  /\ publications = 0
  /\ provenance = NoProvenance

Init ==
  \E websites \in InitialWebsites, storages \in InitialStorages :
    InitWith(websites, storages)

\* ---- WebsiteMonitor.checkAll and AzureFileMonitor.checkAll

\* websiteMonitor.checkAll() up to its await: one checkWebsite call per
\* element of the list, each up to its axios.get
websiteCheckAll(cyc, monitor) ==
  [cyc EXCEPT !.pc = "awaitWebsites",
              !.websites = monitor.websites,
              !.webTask = [i \in 1..Len(monitor.websites) |-> pendingRequest],
              !.websiteResults = EmptyMap,
              !.webGen = monitor.gen]

\* results[key] = result of the probes that have returned, in list order
RECURSIVE storedResults(_, _, _)
storedResults(storageAccounts, tasks, n) ==
  IF n = 0 THEN EmptyMap
  ELSE LET before == storedResults(storageAccounts, tasks, n - 1) IN
       IF tasks[n].pc = "done"
       THEN Put(before, storageKey(storageAccounts[n]), tasks[n].result)
       ELSE before

\* azureFileMonitor.checkAll() up to its await: one checkFileStorage call per
\* element of the list, each up to its first await; a probe with no access
\* mode has returned by then
storageCheckAll(cyc, monitor) ==
  LET list == monitor.storageAccounts
      tasks == [i \in 1..Len(list) |-> beginProbe(list[i])]
  IN [cyc EXCEPT !.pc = "awaitStorages",
                 !.storageAccounts = list,
                 !.storeTask = tasks,
                 !.azureFileResults = storedResults(list, tasks, Len(list)),
                 !.storeGen = monitor.gen]

\* A mutant of allReturned: the checkAll returns with the first probe that
\* does.
firstReturned(tasks) ==
  tasks = <<>> \/ \E i \in 1..Len(tasks) : tasks[i].pc = "done"

\* Promise.all(promises) of a checkAll
allReturned(tasks) == \A i \in 1..Len(tasks) : tasks[i].pc = "done"
someThrew(tasks) == \E i \in 1..Len(tasks) : tasks[i].pc = "threw"

\* ---- runMonitoring

\* A mutant of publish: the websites map and lastUpdate are assigned into the
\* snapshot in place, the azureFiles map is left as it was.
publishWebsitesInPlace(old, from, cyc, id) ==
  [results |-> [old EXCEPT !.websites = cyc.websiteResults, !.lastUpdate = id],
   from |-> [from EXCEPT !.websites = id, !.lastUpdate = id]]

\* A mutant of publish: the invocation's entries are added to the maps of
\* the snapshot in place, entries of other keys staying.
publishMerged(old, from, cyc, id) ==
  [results |-> [websites |-> cyc.websiteResults @@ old.websites,
                azureFiles |-> cyc.azureFileResults @@ old.azureFiles,
                lastUpdate |-> id],
   from |-> [websites |-> id, azureFiles |-> id, lastUpdate |-> id]]

\* monitoringResults = {websites, azureFiles, lastUpdate}: the new snapshot
\* and, per field, the publication it comes from
publish(old, from, cyc, id) ==
  [results |-> [websites |-> cyc.websiteResults,
                azureFiles |-> cyc.azureFileResults,
                lastUpdate |-> id],
   from |-> [websites |-> id, azureFiles |-> id, lastUpdate |-> id]]

\* A mutant of afterWebsites: the first checkAll is not awaited.
afterWebsitesNoAwait(cyc) ==
  IF cyc.pc = "awaitWebsites"
  THEN storageCheckAll(cyc, azureFileMonitor)
  ELSE cyc

\* runMonitoring after `await websiteMonitor.checkAll()`: once every website
\* probe has returned, azureFileMonitor (the monitor in use by now) is asked
afterWebsites(cyc) ==
  IF cyc.pc = "awaitWebsites" /\ allReturned(cyc.webTask)
  THEN storageCheckAll(cyc, azureFileMonitor)
  ELSE cyc

\* The continuations of runMonitoring invocation c that are runnable once
\* its state is cyc: a rejected checkAll is caught and logged, a finished
\* checkAll is followed by the next, the second by the publication.
Proceed(c, cyc) ==
  IF cyc.pc = "awaitWebsites" /\ someThrew(cyc.webTask)
  THEN /\ cycle' = [cycle EXCEPT ![c] = [cyc EXCEPT !.pc = "caught"]]
       /\ UNCHANGED <<monitoringResults, publications, provenance>>
  ELSE
    LET next == afterWebsites(cyc) IN
    IF next.pc = "awaitStorages" /\ allReturned(next.storeTask)
    THEN LET id == publications + 1
             new == publish(monitoringResults, provenance.from, next, id)
         IN /\ cycle' = [cycle EXCEPT ![c] = [next EXCEPT !.pc = "done"]]
            /\ monitoringResults' = new.results
            /\ publications' = id
            /\ provenance' =
                 [from |-> new.from, cycle |-> c,
                  websites |-> next.websites,
                  storageAccounts |-> next.storageAccounts,
                  startGen |-> next.startGen, webGen |-> next.webGen,
                  storeGen |-> next.storeGen, atGen |-> generation,
                  startLists |-> next.startLists,
                  inUse |-> [websites |-> websiteMonitor.websites,
                             storageAccounts |->
                               azureFileMonitor.storageAccounts]]
    ELSE /\ cycle' = [cycle EXCEPT ![c] = next]
         /\ UNCHANGED <<monitoringResults, publications, provenance>>

\* server start-up (c = 1) or a cron tick: runMonitoring() is called
RunMonitoring(c) ==
  /\ cycle[c].pc = "idle"
  /\ c > 1 => cycle[c - 1].pc # "idle"
  /\ Proceed(c, [websiteCheckAll(cycle[c], websiteMonitor)
                   EXCEPT !.startGen = generation,
                          !.startLists =
                            [websites |-> websiteMonitor.websites,
                             storageAccounts |->
                               azureFileMonitor.storageAccounts]])
  /\ res' = NoResponse
  /\ UNCHANGED <<config, websiteMonitor, azureFileMonitor, generation>>

\* the GET of website i of invocation c settles as net: checkWebsite returns
\* (or throws), the result is stored under the url
WebsiteResponds(c, i, net) ==
  /\ cycle[c].pc = "awaitWebsites"
  /\ i \in 1..Len(cycle[c].webTask)
  /\ cycle[c].webTask[i].pc = "pending"
  /\ LET website == cycle[c].websites[i]
         r == checkWebsite(website, net)
     IN Proceed(c,
          IF r.threw
          THEN [cycle[c] EXCEPT
                  !.webTask[i] = [pc |-> "threw", net |-> net, result |-> NoResult]]
          ELSE [cycle[c] EXCEPT
                  !.webTask[i] = [pc |-> "done", net |-> net, result |-> r.value],
                  !.websiteResults = Put(@, website.url, r.value)])
  /\ res' = NoResponse
  /\ UNCHANGED <<config, websiteMonitor, azureFileMonitor, generation>>

\* A mutant of recordResult: the results are collected from Promise.all and
\* stored once every probe has returned.
recordResultsAtEnd(cyc, i, task) ==
  LET tasks == [cyc.storeTask EXCEPT ![i] = task] IN
  [cyc EXCEPT
     !.storeTask = tasks,
     !.azureFileResults =
        IF allReturned(tasks)
        THEN storedResults(cyc.storageAccounts, tasks, Len(tasks))
        ELSE @]

\* the callback of AzureFileMonitor.checkAll for element i: once
\* checkFileStorage has returned, results[key] = result
recordResult(cyc, i, task) ==
  [cyc EXCEPT
     !.storeTask[i] = task,
     !.azureFileResults =
        IF task.pc = "done"
        THEN Put(@, storageKey(cyc.storageAccounts[i]), task.result)
        ELSE @]

\* store probe i of invocation c moves to task
StoreStep(c, i, task) ==
  /\ Proceed(c, recordResult(cycle[c], i, task))
  /\ res' = NoResponse
  /\ UNCHANGED <<config, websiteMonitor, azureFileMonitor, generation>>

Awaiting(c, i, pc) ==
  /\ cycle[c].pc = "awaitStorages"
  /\ i \in 1..Len(cycle[c].storeTask)
  /\ cycle[c].storeTask[i].pc = pc

ExistsReturns(c, i, e) ==
  /\ Awaiting(c, i, "exists")
  /\ StoreStep(c, i,
       existsReturns(cycle[c].storeTask[i], cycle[c].storageAccounts[i], e))

ListingYieldsFile(c, i, props) ==
  /\ Awaiting(c, i, "list")
  /\ cycle[c].storeTask[i].items < MaxItems
  /\ StoreStep(c, i, yieldsFile(cycle[c].storeTask[i], props))

ListingYieldsDirectory(c, i) ==
  /\ Awaiting(c, i, "list")
  /\ cycle[c].storeTask[i].items < MaxItems
  /\ Len(cycle[c].storeTask[i].stack) < MaxDepth
  /\ StoreStep(c, i, yieldsDirectory(cycle[c].storeTask[i]))

ListingEnds(c, i) ==
  /\ Awaiting(c, i, "list")
  /\ StoreStep(c, i,
       listingEnds(cycle[c].storeTask[i], cycle[c].storageAccounts[i]))

ListingFails(c, i) ==
  /\ Awaiting(c, i, "list")
  /\ StoreStep(c, i,
       listingFails(cycle[c].storeTask[i], cycle[c].storageAccounts[i]))

\* a network call of store probe i never returns: nothing bounds it
Hangs(c, i) ==
  /\ \/ Awaiting(c, i, "exists")
     \/ Awaiting(c, i, "list")
  /\ cycle' = [cycle EXCEPT ![c].storeTask[i].pc = "hung"]
  /\ res' = NoResponse
  /\ UNCHANGED <<config, websiteMonitor, azureFileMonitor, monitoringResults,
                 generation, publications, provenance>>

\* ---- the HTTP endpoints

\* app.listen follows the first runMonitoring() call
Listening == cycle[1].pc # "idle"

Respond(status, body) == [status |-> status, body |-> body]

\* authenticateToken: "" is no token, "good" the only one jwt.verify accepts
authenticateToken(token) ==
  IF token = "" THEN Respond(401, "Access token required")
  ELSE IF token # "good" THEN Respond(403, "Invalid or expired token")
  ELSE Respond(0, "next")

\* GET /status
GetStatus ==
  /\ Listening
  /\ res' = [status |-> 200, body |-> monitoringResults,
             from |-> provenance.from]
  /\ UNCHANGED <<config, websiteMonitor, azureFileMonitor, monitoringResults,
                 cycle, generation, publications, provenance>>

\* GET /websites
GetWebsites ==
  /\ Listening
  /\ res' = [status |-> 200,
             body |-> [websites |-> monitoringResults.websites,
                       lastUpdate |-> monitoringResults.lastUpdate],
             from |-> [websites |-> provenance.from.websites,
                       lastUpdate |-> provenance.from.lastUpdate]]
  /\ UNCHANGED <<config, websiteMonitor, azureFileMonitor, monitoringResults,
                 cycle, generation, publications, provenance>>

\* GET /azure-files
GetAzureFiles ==
  /\ Listening
  /\ res' = [status |-> 200,
             body |-> [azureFiles |-> monitoringResults.azureFiles,
                       lastUpdate |-> monitoringResults.lastUpdate],
             from |-> [azureFiles |-> provenance.from.azureFiles,
                       lastUpdate |-> provenance.from.lastUpdate]]
  /\ UNCHANGED <<config, websiteMonitor, azureFileMonitor, monitoringResults,
                 cycle, generation, publications, provenance>>

\* a request the handler answers without touching anything
Refuse(response) ==
  /\ res' = response
  /\ UNCHANGED <<config, websiteMonitor, azureFileMonitor, monitoringResults,
                 cycle, generation, publications, provenance>>

\* restartMonitoring() once config is newConfig
restartMonitoring(newConfig) ==
  /\ websiteMonitor' = WebsiteMonitor(newConfig.websites, generation + 1)
  /\ azureFileMonitor' =
       AzureFileMonitor(newConfig.azureFileStorages, generation + 1)
  /\ generation' = generation + 1

\* a request that writes config, restarts monitoring and answers
Reconfigure(newConfig, response) ==
  /\ config' = newConfig
  /\ restartMonitoring(newConfig)
  /\ res' = response
  /\ UNCHANGED <<monitoringResults, cycle, publications, provenance>>

\* POST /config/websites
PostWebsite(token, name, url) ==
  /\ Listening
  /\ generation < MaxChanges
  /\ LET auth == authenticateToken(token) IN
     IF auth.status # 0 THEN Refuse(auth)
     ELSE IF ~Truthy(name) \/ ~Truthy(url)
     THEN Refuse(Respond(400, "Name and URL are required"))
     ELSE /\ Len(config.websites) < MaxTargets
          /\ Reconfigure(
               [config EXCEPT !.websites = Append(@, Website(name, url))],
               Respond(200, "Website added successfully"))

\* POST /config/azure-storages
PostAzureStorage(token, name, shareName, sasUrl, directories) ==
  /\ Listening
  /\ generation < MaxChanges
  /\ LET auth == authenticateToken(token) IN
     IF auth.status # 0 THEN Refuse(auth)
     ELSE IF ~Truthy(name) \/ ~Truthy(shareName) \/ ~Truthy(sasUrl)
     THEN Refuse(Respond(400, "Name, shareName, and sasUrl are required"))
     ELSE /\ Len(config.azureFileStorages) < MaxTargets
          /\ Reconfigure(
               [config EXCEPT !.azureFileStorages =
                  Append(@, Storage("", shareName, name, sasUrl, "", directories))],
               Respond(200, "Azure storage added successfully"))

\* A JS number: an integer or NaN.
Num(n) == [nan |-> FALSE, val |-> n]
NaN == [nan |-> TRUE, val |-> 0]
\* a < b and a >= b: false when either side is NaN
Less(a, b) == ~a.nan /\ ~b.nan /\ a.val < b.val
AtLeast(a, b) == ~a.nan /\ ~b.nan /\ a.val >= b.val

Digits == {"0", "1", "2", "3", "4", "5", "6", "7", "8", "9"}
digitValue(ch) ==
  CASE ch = "0" -> 0 [] ch = "1" -> 1 [] ch = "2" -> 2 [] ch = "3" -> 3
    [] ch = "4" -> 4 [] ch = "5" -> 5 [] ch = "6" -> 6 [] ch = "7" -> 7
    [] ch = "8" -> 8 [] ch = "9" -> 9

\* the value of the longest prefix of decimal digits of chars, after acc;
\* any is whether a digit has been read
RECURSIVE parseDigits(_, _, _)
parseDigits(chars, acc, any) ==
  IF chars # <<>> /\ Head(chars) \in Digits
  THEN parseDigits(Tail(chars), 10 * acc + digitValue(Head(chars)), TRUE)
  ELSE [any |-> any, val |-> acc]

RECURSIVE skipWhiteSpace(_)
skipWhiteSpace(chars) ==
  IF chars # <<>> /\ Head(chars) = " " THEN skipWhiteSpace(Tail(chars))
  ELSE chars

\* parseInt(string) of a string given as its characters: leading white space,
\* an optional sign, then decimal digits up to the first other character;
\* NaN when there is no digit
parseInt(chars) ==
  LET s == skipWhiteSpace(chars)
      negative == s # <<>> /\ Head(s) = "-"
      signed == s # <<>> /\ Head(s) \in {"-", "+"}
      d == parseDigits(IF signed THEN Tail(s) ELSE s, 0, FALSE)
  IN IF ~d.any THEN NaN
     ELSE Num(IF negative THEN 0 - d.val ELSE d.val)

\* array.splice(index, 1): a NaN start is 0; the list left and the elements
\* removed (index is not negative here)
splice(list, index) ==
  LET start == IF index.nan THEN 0 ELSE index.val IN
  IF start >= Len(list) THEN [list |-> list, removed |-> <<>>]
  ELSE [list |-> [i \in 1..(Len(list) - 1) |->
                    IF i <= start THEN list[i] ELSE list[i + 1]],
        removed |-> <<list[start + 1]>>]

\* the :index parameters requests are made with
IndexParams ==
  {<<"0">>, <<"1">>, <<"2">>, <<"-", "1">>, <<"x">>, <<"1", "x">>}

\* DELETE /config/websites/:index
DeleteWebsite(token, param) ==
  /\ Listening
  /\ generation < MaxChanges
  /\ LET auth == authenticateToken(token)
         index == parseInt(param)
         cut == splice(config.websites, index)
     IN
     IF auth.status # 0 THEN Refuse(auth)
     ELSE IF Less(index, Num(0)) \/ AtLeast(index, Num(Len(config.websites)))
     THEN Refuse(Respond(404, "Website not found"))
     ELSE Reconfigure([config EXCEPT !.websites = cut.list],
                      Respond(200, "Website removed successfully"))

\* DELETE /config/azure-storages/:index; removed.name of nothing removed
\* throws once the config is written and monitoring restarted
DeleteAzureStorage(token, param) ==
  /\ Listening
  /\ generation < MaxChanges
  /\ LET auth == authenticateToken(token)
         index == parseInt(param)
         cut == splice(config.azureFileStorages, index)
     IN
     IF auth.status # 0 THEN Refuse(auth)
     ELSE IF Less(index, Num(0))
             \/ AtLeast(index, Num(Len(config.azureFileStorages)))
     THEN Refuse(Respond(404, "Storage not found"))
     ELSE Reconfigure([config EXCEPT !.azureFileStorages = cut.list],
                      IF cut.removed = <<>>
                      THEN Respond(500, "TypeError")
                      ELSE Respond(200, "Storage removed successfully"))

\* ------------------------------------------------------- specifications
Slots == 1..MaxTargets
ExistsOutcomes == {"true", "false", "throws"}
\* the outcomes of exists() the orchestration specification draws from
CycleExists == {"true", "false"}

\* The orchestration: monitoring cycles against configuration changes and
\* reads; the shares probed hold no entries.
Next ==
  \/ \E c \in Cycles : RunMonitoring(c)
  \/ \E c \in Cycles, i \in Slots, net \in CycleOutcomes : WebsiteResponds(c, i, net)
  \/ \E c \in Cycles, i \in Slots, e \in CycleExists : ExistsReturns(c, i, e)
  \/ \E c \in Cycles, i \in Slots : ListingEnds(c, i)
  \/ \E c \in Cycles, i \in Slots : ListingFails(c, i)
  \/ \E c \in Cycles, i \in Slots : Hangs(c, i)
  \/ GetStatus
  \/ GetWebsites
  \/ GetAzureFiles
  \/ \E token \in Tokens, name \in NameInputs, url \in UrlInputs :
       PostWebsite(token, name, url)
  \/ \E token \in Tokens, name \in NameInputs, shareName \in ShareInputs,
        sasUrl \in SasInputs, directories \in DirectoryInputs :
       PostAzureStorage(token, name, shareName, sasUrl, directories)
  \/ \E token \in Tokens, param \in IndexParams : DeleteWebsite(token, param)
  \/ \E token \in Tokens, param \in IndexParams : DeleteAzureStorage(token, param)

Spec == Init /\ [][Next]_vars

\* One probe of one storage target, over every share the bounds allow.
DirNames == {"d" \o ToString(k) : k \in 1..MaxDirs}
RECURSIVE OrderedSets(_)
\* the sequences without repetition of elements of S
OrderedSets(S) ==
  {<<>>} \cup UNION {{<<x>> \o rest : rest \in OrderedSets(S \ {x})} : x \in S}

ProbeTargets ==
  {Storage(id[1], "share", id[2], sasUrl, credential, directories) :
     id \in {<<"acct", "">>, <<"", "store">>},
     sasUrl \in {"", "sas"}, credential \in {"", "cred"},
     directories \in OrderedSets(DirNames)}

ProbeInit == \E storage \in ProbeTargets : InitWith(<<>>, <<storage>>)

ProbeNext ==
  \/ RunMonitoring(1)
  \/ \E e \in ExistsOutcomes : ExistsReturns(1, 1, e)
  \/ \E props \in FileProps : ListingYieldsFile(1, 1, props)
  \/ ListingYieldsDirectory(1, 1)
  \/ ListingEnds(1, 1)
  \/ ListingFails(1, 1)

ProbeSpec == ProbeInit /\ [][ProbeNext]_vars

\* One cycle over website lists only, over every outcome of a GET.
siteB == Website("", "u2")
RECURSIVE ListsUpTo(_, _)
\* the sequences of at most n elements of S
ListsUpTo(S, n) ==
  IF n = 0 THEN {<<>>}
  ELSE LET shorter == ListsUpTo(S, n - 1) IN
       shorter \cup {Append(l, x) : l \in shorter, x \in S}

WebsiteLists == ListsUpTo({siteA, siteB}, MaxTargets)

WebInit == \E websites \in WebsiteLists : InitWith(websites, <<>>)

WebNext ==
  \/ RunMonitoring(1)
  \/ \E i \in Slots, net \in AxiosOutcomes : WebsiteResponds(1, i, net)

WebSpec == WebInit /\ [][WebNext]_vars

\* The monitoring cycles alone, under the scheduling the code has: a GET
\* settles (axios is given a timeout); a call to the share settles or, no
\* timeout bounding it, hangs.
WebsiteSettles(c, i) == \E net \in CycleOutcomes : WebsiteResponds(c, i, net)

StoreCallSettlesOrHangs(c, i) ==
  \/ \E e \in ExistsOutcomes : ExistsReturns(c, i, e)
  \/ ListingEnds(c, i)
  \/ ListingFails(c, i)
  \/ Hangs(c, i)

CyclesNext ==
  \/ \E c \in Cycles : RunMonitoring(c)
  \/ \E c \in Cycles, i \in Slots : WebsiteSettles(c, i)
  \/ \E c \in Cycles, i \in Slots : StoreCallSettlesOrHangs(c, i)

Fairness ==
  \A c \in Cycles, i \in Slots :
    /\ WF_vars(WebsiteSettles(c, i))
    /\ WF_vars(StoreCallSettlesOrHangs(c, i))

FairSpec == Init /\ [][CyclesNext]_vars /\ Fairness

\* The traversal of a share that exists, of its root or of requested
\* directories, over every tree the bounds allow and every order of its
\* listings.
TraversalInit ==
  \E directories \in OrderedSets(DirNames) :
    InitWith(<<>>, <<Storage("acct", "share", "", "", "cred", directories)>>)

TraversalNext ==
  \/ RunMonitoring(1)
  \/ ExistsReturns(1, 1, "true")
  \/ \E props \in FileProps : ListingYieldsFile(1, 1, props)
  \/ ListingYieldsDirectory(1, 1)
  \/ ListingEnds(1, 1)

TraversalSpec == TraversalInit /\ [][TraversalNext]_vars

\* ------------------------------------------------------------- the claims
Range(s) == {s[i] : i \in 1..Len(s)}

RECURSIVE SeqSum(_)
SeqSum(s) == IF s = <<>> THEN 0 ELSE Head(s) + SeqSum(Tail(s))

Published == provenance.cycle # 0

StoreTasks == {<<c, i>> \in Cycles \X Slots : i <= Len(cycle[c].storeTask)}
WebTasks == {<<c, i>> \in Cycles \X Slots : i <= Len(cycle[c].webTask)}
taskOf(t) == cycle[t[1]].storeTask[t[2]]
storageOf(t) == cycle[t[1]].storageAccounts[t[2]]
Returned(t) == taskOf(t).pc = "done"
hasBreakdown(result) == "directoryBreakdown" \in DOMAIN result
noAccessMode(storage) == ~Truthy(storage.sasUrl) /\ ~Truthy(storage.credential)

\* C1: the result maps of every published snapshot hold exactly one entry
\* per element of the website list and of the storage list they were produced
\* from.
C1_OneEntryPerTarget ==
  Published =>
    /\ Cardinality(DOMAIN monitoringResults.websites) = Len(provenance.websites)
    /\ Cardinality(DOMAIN monitoringResults.azureFiles)
         = Len(provenance.storageAccounts)

\* C2: the three fields of the published snapshot come from one publication,
\* and so do the fields every read returns; the lastUpdate a read returns is
\* that publication's.
C2_ReadsOneSnapshot ==
  /\ provenance.from.websites = provenance.from.lastUpdate
  /\ provenance.from.azureFiles = provenance.from.lastUpdate
  /\ monitoringResults.lastUpdate = provenance.from.lastUpdate
  /\ "from" \in DOMAIN res =>
       /\ \A f \in DOMAIN res.from : res.from[f] = res.from.lastUpdate
       /\ res.body.lastUpdate = res.from.lastUpdate

\* C2 witness: a read answered from the second publication.
C2_Witness ==
  /\ "from" \in DOMAIN res
  /\ res.from.lastUpdate = 2
  /\ \E c \in Cycles : cycle[c].pc = "done"

\* C3: no probe raises and no runMonitoring invocation ends in its catch
\* block; every probe that has returned holds a result value, which for a
\* website is the one its own request's outcome gives, whatever the other
\* probes of the cycle did.
C3_ProbesNeverRaise ==
  /\ \A c \in Cycles : cycle[c].pc # "caught"
  /\ \A t \in WebTasks :
       LET task == cycle[t[1]].webTask[t[2]] IN
       /\ task.pc \in {"pending", "done"}
       /\ task.pc = "done" =>
            /\ task.result.status \in {"up", "down"}
            /\ task.result = checkWebsite(cycle[t[1]].websites[t[2]], task.net).value
            /\ cycle[t[1]].websites[t[2]].url \in DOMAIN cycle[t[1]].websiteResults
  /\ \A t \in StoreTasks :
       /\ taskOf(t).pc \in {"exists", "list", "hung", "done"}
       /\ Returned(t) => taskOf(t).result.status \in {"ok", "error"}

\* C3 witness: a cycle that published with one website down, another up and a
\* storage probe that failed.
C3_Witness ==
  \E c \in Cycles :
    /\ cycle[c].pc = "done"
    /\ \E i, j \in 1..Len(cycle[c].webTask) :
         /\ cycle[c].webTask[i].result.status = "down"
         /\ cycle[c].webTask[j].result.status = "up"
    /\ \E k \in 1..Len(cycle[c].storeTask) :
         cycle[c].storeTask[k].result.status = "error"

\* C4: every published snapshot holds only results of probes of the target
\* lists in use when it was published: none of a list that restartMonitoring
\* had replaced by a different one before the publication.
C4_SupersededNotRetained ==
  Published =>
    /\ provenance.websites = provenance.inUse.websites
    /\ provenance.storageAccounts = provenance.inUse.storageAccounts

\* C5: the two maps of every published snapshot were produced from one
\* generation of the target lists, the one in use when the cycle started:
\* the lists probed are the lists of that moment.
C5_OneGeneration ==
  Published =>
    /\ provenance.websites = provenance.startLists.websites
    /\ provenance.storageAccounts = provenance.startLists.storageAccounts

hungIn(c) == \E i \in 1..Len(cycle[c].storeTask) : cycle[c].storeTask[i].pc = "hung"
othersReturned(c) ==
  \A i \in 1..Len(cycle[c].storeTask) :
    cycle[c].storeTask[i].pc \in {"hung", "done"}

\* C7 as claimed: in a cycle of two or more targets with a probe that hangs,
\* once every other probe has returned their results are delivered: the
\* cycle's checkAll has returned and its snapshot is published.
C7_OthersDelivered ==
  \A c \in Cycles :
    (/\ hungIn(c)
     /\ othersReturned(c)
     /\ Len(cycle[c].webTask) + Len(cycle[c].storeTask) >= 2)
      => cycle[c].pc = "done"

\* C7 as amended: a probe that has returned has its result in the result map
\* of its checkAll at once, whether or not another probe hangs; a cycle with
\* a hung probe stays in its checkAll and publishes nothing.
C7_OthersRecorded ==
  /\ \A t \in StoreTasks :
       Returned(t) =>
         /\ storageKey(storageOf(t)) \in DOMAIN cycle[t[1]].azureFileResults
         /\ \E u \in StoreTasks :
              /\ u[1] = t[1]
              /\ Returned(u)
              /\ storageKey(storageOf(u)) = storageKey(storageOf(t))
              /\ cycle[t[1]].azureFileResults[storageKey(storageOf(t))]
                   = taskOf(u).result
  /\ \A c \in Cycles :
       hungIn(c) => /\ cycle[c].pc = "awaitStorages"
                    /\ provenance.cycle # c

\* C7 witness: one probe hung, another of the same cycle returned and
\* recorded.
C7_Witness ==
  \E c \in Cycles :
    \E i, j \in 1..Len(cycle[c].storeTask) :
      /\ cycle[c].storeTask[i].pc = "hung"
      /\ cycle[c].storeTask[j].pc = "done"
      /\ cycle[c].storeTask[j].result.status = "ok"
      /\ storageKey(cycle[c].storageAccounts[j]) \in DOMAIN cycle[c].azureFileResults

\* C8: the probe of a target with neither sasUrl nor credential has returned
\* as soon as it is called, with status 'error' and fileCount 0, having issued
\* no network call.
C8_NoAccessModeNoCall ==
  \A t \in StoreTasks :
    noAccessMode(storageOf(t)) =>
      /\ Returned(t)
      /\ taskOf(t).result.status = "error"
      /\ taskOf(t).result.fileCount = 0
      /\ taskOf(t).calls = {}
      /\ cycle[t[1]].azureFileResults[storageKey(storageOf(t))].status = "error"

\* C8 witness: such a probe has run, for a target that names directories.
C8_Witness ==
  \E t \in StoreTasks :
    /\ noAccessMode(storageOf(t))
    /\ hasDirectories(storageOf(t))
    /\ Returned(t)

countedFiles(log) ==
  SeqSum([k \in 1..Len(log) |-> IF log[k].failed THEN 0 ELSE log[k].files])

\* C9: a probe with a directories list on an existing share returns status
\* 'ok' after counting every requested directory; fileCount is the sum of the
\* files of the directories that listed, and directoryBreakdown has an entry
\* per requested directory, an {error} entry for exactly those that failed.
C9_PartialDirectories ==
  \A t \in StoreTasks :
    LET task == taskOf(t)
        directories == storageOf(t).directories
    IN (Returned(t) /\ hasDirectories(storageOf(t)) /\ task.log # <<>>) =>
         /\ task.result.status = "ok"
         /\ Len(task.log) = Len(directories)
         /\ task.result.fileCount = countedFiles(task.log)
         /\ hasBreakdown(task.result)
         /\ DOMAIN task.result.directoryBreakdown = Range(directories)
         /\ \A k \in 1..Len(directories) :
              LET entry == task.result.directoryBreakdown[directories[k]] IN
              /\ task.log[k].dirIdx = k
              /\ ("error" \in DOMAIN entry) <=> task.log[k].failed
              /\ ("count" \in DOMAIN entry) <=> ~task.log[k].failed
              /\ ~task.log[k].failed => entry.count = task.log[k].files

\* C9 witness: the first of two directories failed to list, the second was
\* counted with its files.
C9_Witness ==
  \E t \in StoreTasks :
    /\ Returned(t)
    /\ Len(taskOf(t).log) = 2
    /\ taskOf(t).log[1].failed
    /\ ~taskOf(t).log[2].failed
    /\ taskOf(t).log[2].files >= 2
    /\ taskOf(t).result.fileCount >= 2

\* C10 as claimed: a returned result has a directoryBreakdown exactly when
\* the target has a non-empty directories list.
C10_BreakdownIffDirectories ==
  \A t \in StoreTasks :
    Returned(t) =>
      (hasBreakdown(taskOf(t).result) <=> hasDirectories(storageOf(t)))

\* C10 as amended: a returned result has a directoryBreakdown exactly when
\* the target has a non-empty directories list and the result's status is
\* 'ok'; an error result has none.
C10_BreakdownIffCounted ==
  \A t \in StoreTasks :
    Returned(t) =>
      (hasBreakdown(taskOf(t).result)
         <=> (hasDirectories(storageOf(t)) /\ taskOf(t).result.status = "ok"))

\* C10 witness: an absent share probed for a target with directories: an
\* error result without breakdown.
C10_Witness ==
  \E t \in StoreTasks :
    /\ Returned(t)
    /\ hasDirectories(storageOf(t))
    /\ taskOf(t).result.message = "Share does not exist"
    /\ ~hasBreakdown(taskOf(t).result)

\* C11: a countFilesRecursively call whose listings all succeed returns the
\* number of entries of kind 'file' the listings of its subtree yielded,
\* at whatever depth and in whatever order, whether or not getProperties
\* failed for them; while the traversal runs, the counts of the open calls
\* add up to the files yielded so far.
C11_CountIsFilesInSubtree ==
  \A t \in StoreTasks :
    LET task == taskOf(t)
        storage == storageOf(t)
    IN
    /\ task.pc = "list" =>
         SeqSum([k \in 1..Len(task.stack) |-> task.stack[k].fileCount])
           = task.seen
    /\ \A k \in 1..Len(task.log) :
         ~task.log[k].failed =>
           IF task.log[k].dirIdx = 0
           THEN Returned(t) /\ task.result.fileCount = task.log[k].files
           ELSE task.results[storage.directories[task.log[k].dirIdx]].count
                  = task.log[k].files

\* C11 witness: a count that returned 2 for a subtree of two files and one
\* nested directory, none of the files' getProperties calls having succeeded.
C11_Witness ==
  \E t \in StoreTasks :
    LET task == taskOf(t)
        storage == storageOf(t)
    IN /\ Returned(t)
       /\ Len(storage.directories) = 1
       /\ task.items = 3
       /\ Len(task.log) = 1
       /\ ~task.log[1].failed
       /\ task.log[1].files = 2
       /\ task.result.directoryBreakdown[storage.directories[1]].count = 2
       /\ task.result.directoryBreakdown[storage.directories[1]].oldestFileDate
            = "null"

\* C12: a website probe that has returned has status 'up' exactly when its
\* GET was answered with a status code below 500, and then statusCode is that
\* code; otherwise it has status 'down', with the code of the response when
\* there was one (500 or more) and 0 when there was none.
C12_UpIffBelow500 ==
  \A t \in WebTasks :
    LET task == cycle[t[1]].webTask[t[2]]
        answered == task.net.kind = "response"
    IN task.pc = "done" =>
         /\ task.result.status \in {"up", "down"}
         /\ task.result.status = "up" <=> (answered /\ task.net.status < 500)
         /\ task.result.status = "up" => task.result.statusCode = task.net.status
         /\ task.result.status = "down" =>
              task.result.statusCode = IF answered THEN task.net.status ELSE 0

\* C12 witness: one cycle in which a 404 gave 'up' with statusCode 404 and a
\* refused connection gave 'down' with statusCode 0.
C12_Witness ==
  \E c \in Cycles :
    \E i, j \in 1..Len(cycle[c].webTask) :
      /\ cycle[c].webTask[i].pc = "done"
      /\ cycle[c].webTask[i].net.status = 404
      /\ cycle[c].webTask[i].result.status = "up"
      /\ cycle[c].webTask[i].result.statusCode = 404
      /\ cycle[c].webTask[j].pc = "done"
      /\ cycle[c].webTask[j].net.code = "ECONNREFUSED"
      /\ cycle[c].webTask[j].result.status = "down"
      /\ cycle[c].webTask[j].result.statusCode = 0

completed(tasks) == \A i \in 1..Len(tasks) : tasks[i].pc = "done"

\* C13: the published snapshot changes only in a step in which a
\* runMonitoring invocation finishes with every one of its probes, website
\* and storage, returned, and it becomes that invocation's two result maps,
\* which hold the result of each of its probes; any other step, of a cycle
\* that does not get that far included, leaves the snapshot as it was.
C13_PublishAfterAllProbes ==
  [][\/ monitoringResults' = monitoringResults
     \/ \E c \in Cycles :
          LET cyc == cycle'[c] IN
          /\ cycle[c].pc # "done"
          /\ cyc.pc = "done"
          /\ Len(cyc.webTask) = Len(cyc.websites)
          /\ Len(cyc.storeTask) = Len(cyc.storageAccounts)
          /\ completed(cyc.webTask)
          /\ completed(cyc.storeTask)
          /\ monitoringResults'.websites = cyc.websiteResults
          /\ monitoringResults'.azureFiles = cyc.azureFileResults
          /\ \A i \in 1..Len(cyc.websites) :
               cyc.websites[i].url \in DOMAIN monitoringResults'.websites
          /\ \A i \in 1..Len(cyc.storageAccounts) :
               storageKey(cyc.storageAccounts[i])
                 \in DOMAIN monitoringResults'.azureFiles]_vars

\* C13 witness: the snapshot of a cycle of two or more probes is published
\* while another cycle is stuck behind a probe that hangs.
C13_Witness ==
  \E c, d \in Cycles :
    /\ provenance.cycle = c
    /\ Len(cycle[c].webTask) + Len(cycle[c].storeTask) >= 2
    /\ d # c
    /\ hungIn(d)
    /\ cycle[d].pc = "awaitStorages"

\* C14: every runMonitoring invocation that has started eventually returns,
\* having published or having caught an error.
C14_EveryCycleCompletes ==
  \A c \in Cycles :
    (cycle[c].pc # "idle") ~> (cycle[c].pc \in {"done", "caught"})

\* C15 as claimed: a listing failure of a directory d fails the call for d
\* only; the call for d's parent still returns its aggregate, so that an
\* outermost countFilesRecursively call fails only when its own listing does.
C15_OnlyThatCallFails ==
  \A t \in StoreTasks :
    \A k \in 1..Len(taskOf(t).log) :
      taskOf(t).log[k].failed => taskOf(t).log[k].depth = 1

\* C15 as amended: a listing failure at any depth fails the outermost call,
\* and what its calls had counted is dropped: the root count ends the probe
\* with status 'error' and fileCount 0, a requested directory gets an
\* {error} entry, adds nothing to fileCount and is followed by the next
\* requested directory.
C15_FailureFailsOutermostCall ==
  \A t \in StoreTasks :
    LET task == taskOf(t)
        storage == storageOf(t)
    IN
    /\ task.fileCount = countedFiles(task.log)
    /\ (task.pc = "list" /\ task.dirIdx > 0) => Len(task.log) = task.dirIdx - 1
    /\ \A k \in 1..Len(task.log) :
         /\ task.log[k].depth \in 1..MaxDepth
         /\ ~task.log[k].failed => task.log[k].depth = 1
         /\ task.log[k].failed =>
              IF task.log[k].dirIdx = 0
              THEN /\ Returned(t)
                   /\ task.result.status = "error"
                   /\ task.result.fileCount = 0
                   /\ task.result.message = "listing failed"
              ELSE task.results[storage.directories[task.log[k].dirIdx]]
                     = [error |-> "listing failed"]

\* C15 witness: the listing of a subdirectory of the first requested
\* directory failed after a file of that directory had been counted; the
\* second requested directory was counted.
C15_Witness ==
  \E t \in StoreTasks :
    LET task == taskOf(t) IN
    /\ Returned(t)
    /\ Len(task.log) = 2
    /\ task.log[1].failed
    /\ task.log[1].depth = 2
    /\ task.log[1].files >= 1
    /\ ~task.log[2].failed
    /\ task.log[2].files >= 1
    /\ task.result.fileCount = task.log[2].files

\* C16: no listFilesAndDirectories or getProperties call is made before
\* exists() has reported the share present; when it reports the share absent
\* the probe has returned status 'error', fileCount 0 and the message 'Share
\* does not exist', having made no other call and listed nothing.
C16_AbsentShareNotTraversed ==
  \A t \in StoreTasks :
    LET task == taskOf(t) IN
    /\ task.calls \ {"exists"} # {} => task.exists = "true"
    /\ task.pc = "list" => task.exists = "true"
    /\ task.exists = "false" =>
         /\ Returned(t)
         /\ task.result.status = "error"
         /\ task.result.fileCount = 0
         /\ task.result.message = "Share does not exist"
         /\ task.calls = {"exists"}
         /\ task.items = 0
         /\ task.log = <<>>

\* C16 witness: exists() reported the share of a target with two requested
\* directories absent, and the probe has returned.
C16_Witness ==
  \E t \in StoreTasks :
    /\ taskOf(t).exists = "false"
    /\ Len(storageOf(t).directories) = 2
    /\ Returned(t)
    /\ taskOf(t).result.fileCount = 0

\* the aggregates of at most MaxItems files
Aggregates ==
  [count : 0..MaxItems, oldestFile : {NoDate} \cup Dates,
   newestFile : {NoDate} \cup Dates]
emptyAggregate == aggregate(newFrame)
\* the combination: what a call holding a makes of a sub-result b
combine(a, b) ==
  aggregate(directoryItem([fileCount |-> a.count, oldestFile |-> a.oldestFile,
                           newestFile |-> a.newestFile], b))
RECURSIVE combineAll(_)
combineAll(aggs) ==
  IF aggs = <<>> THEN emptyAggregate
  ELSE combine(Head(aggs), combineAll(Tail(aggs)))
Reverse(s) == [i \in 1..Len(s) |-> s[Len(s) + 1 - i]]
oldestOf(stamps) ==
  IF stamps = {} THEN NoDate ELSE CHOOSE x \in stamps : \A y \in stamps : x <= y
newestOf(stamps) ==
  IF stamps = {} THEN NoDate ELSE CHOOSE x \in stamps : \A y \in stamps : x >= y

\* C17: combining the aggregates held by the open calls of a traversal, with
\* each other and with any aggregate of the bounded set, is commutative and
\* associative, and the empty aggregate is its identity; combined in either
\* order they give the number of files yielded and the least and greatest
\* lastModified fetched, and so does the entry of every requested directory
\* that was counted.
C17_CombinationLaws ==
  \A t \in StoreTasks :
    LET task == taskOf(t)
        storage == storageOf(t)
        aggs == [k \in 1..Len(task.stack) |-> aggregate(task.stack[k])]
        truth == [count |-> task.seen, oldestFile |-> oldestOf(task.stamps),
                  newestFile |-> newestOf(task.stamps)]
    IN
    /\ task.pc = "list" =>
         /\ combineAll(aggs) = truth
         /\ combineAll(Reverse(aggs)) = truth
         /\ \A i \in 1..Len(aggs) :
              /\ combine(aggs[i], emptyAggregate) = aggs[i]
              /\ combine(emptyAggregate, aggs[i]) = aggs[i]
         /\ LET a == aggs[1]
                b == aggs[Len(aggs)]
            IN \A c \in Aggregates :
                 /\ combine(a, c) = combine(c, a)
                 /\ combine(combine(a, b), c) = combine(a, combine(b, c))
                 /\ combine(combine(c, a), b) = combine(c, combine(a, b))
    /\ \A k \in 1..Len(task.log) :
         (~task.log[k].failed /\ task.log[k].dirIdx > 0) =>
           LET entry == task.results[storage.directories[task.log[k].dirIdx]] IN
           /\ entry.oldestFileDate
                = toISOStringOrNull(oldestOf(task.log[k].stamps))
           /\ entry.newestFileDate
                = toISOStringOrNull(newestOf(task.log[k].stamps))

\* C17 witness: a requested directory counted with a nested directory and
\* two files of different lastModified, reported with both instants.
C17_Witness ==
  \E t \in StoreTasks :
    LET task == taskOf(t)
        storage == storageOf(t)
    IN /\ Returned(t)
       /\ Len(task.log) = 1
       /\ task.log[1].dirIdx = 1
       /\ ~task.log[1].failed
       /\ task.items = 3
       /\ task.log[1].files = 2
       /\ Cardinality(task.log[1].stamps) = 2
       /\ task.result.directoryBreakdown[storage.directories[1]].oldestFileDate
            = "T1"
       /\ task.result.directoryBreakdown[storage.directories[1]].newestFileDate
            = "T2"

\* C18: the two maps of the published snapshot are the two result maps of
\* one runMonitoring invocation, the one that published last, and each of
\* their entries is the result of a probe of that invocation, also when
\* invocations overlap.
C18_SnapshotOfOneInvocation ==
  Published =>
    LET cyc == cycle[provenance.cycle] IN
    /\ cyc.pc = "done"
    /\ monitoringResults.websites = cyc.websiteResults
    /\ monitoringResults.azureFiles = cyc.azureFileResults
    /\ \A url \in DOMAIN monitoringResults.websites :
         \E i \in 1..Len(cyc.webTask) :
           /\ cyc.websites[i].url = url
           /\ cyc.webTask[i].result = monitoringResults.websites[url]
    /\ \A key \in DOMAIN monitoringResults.azureFiles :
         \E i \in 1..Len(cyc.storeTask) :
           /\ storageKey(cyc.storageAccounts[i]) = key
           /\ cyc.storeTask[i].result = monitoringResults.azureFiles[key]

\* C18 witness: two invocations overlapped and both published, the one
\* started first last, with different results for a website and for a
\* storage.
C18_Witness ==
  /\ provenance.cycle = 1
  /\ publications = 2
  /\ cycle[2].pc = "done"
  /\ \E url \in DOMAIN cycle[1].websiteResults \cap DOMAIN cycle[2].websiteResults :
       cycle[1].websiteResults[url] # cycle[2].websiteResults[url]
  /\ \E key \in DOMAIN cycle[1].azureFileResults
                   \cap DOMAIN cycle[2].azureFileResults :
       cycle[1].azureFileResults[key] # cycle[2].azureFileResults[key]

\* whether param is the decimal numeral of a position of a list of n elements
denotesPosition(param, n) ==
  /\ param # <<>>
  /\ \A k \in 1..Len(param) : param[k] \in Digits
  /\ parseDigits(param, 0, FALSE).val < n

\* C19: a DELETE of /config/websites/:index or /config/azure-storages/:index
\* that passes authentication removes a target only when the parameter
\* denotes a position of the configured list; for any other parameter
\* (negative, too large, not a number) config and the lists of the two
\* monitors stay as they are and the answer is 404.
C19_DeleteOnlyExistingPosition ==
  [][\A param \in IndexParams :
       /\ (DeleteWebsite("good", param)
             /\ ~denotesPosition(param, Len(config.websites))) =>
            /\ config' = config
            /\ websiteMonitor'.websites = websiteMonitor.websites
            /\ azureFileMonitor'.storageAccounts
                 = azureFileMonitor.storageAccounts
            /\ res'.status = 404
       /\ (DeleteAzureStorage("good", param)
             /\ ~denotesPosition(param, Len(config.azureFileStorages))) =>
            /\ config' = config
            /\ websiteMonitor'.websites = websiteMonitor.websites
            /\ azureFileMonitor'.storageAccounts
                 = azureFileMonitor.storageAccounts
            /\ res'.status = 404]_vars

====
